---- MODULE Spec2Model ----
(***************************************************************************)
(* A model of the QOI codec of leslie255/qoi: the header codec, the chunk  *)
(* encoder (src/src/encode.rs) and the chunk decoder (src/src/decode.rs).  *)
(* Pixels are 4-tuples <<r, g, b, a>> of bytes (pixel[0] of the source is  *)
(* pixel[1] here), byte streams are sequences of 0..255, the index cache   *)
(* is a function 0..63 -> pixel.                                           *)
(***************************************************************************)
EXTENDS Integers, Sequences, FiniteSets, TLC

VARIABLES
    header,          \* the Header handed to encode
    source,          \* the whole pixel sequence handed to encode
    pixels,          \* the Peekable pixel iterator: the pixels not yet consumed
    encoder,         \* the Encoder: index_array, previous_pixel, output
    enc_pc,          \* position inside encode
    chunk_log,       \* per emitted chunk: its bytes, pixels and the encoder state after it
    api,             \* which decode entry point the caller used
    input,           \* the byte stream handed to decode
    pos,             \* the read cursor of input
    dec_header,      \* the Header decode_header returned
    n_pixels,        \* decode's local n_pixels (the loop bound)
    decoder_state,   \* the DecoderState: index_array, previous_pixel, n_pixels
    output,          \* the bytes decode wrote to its output sink
    dec_chunks,      \* the chunks decode_chunk has applied so far
    dec_pc,          \* position inside decode
    result,          \* what decode returned
    returned         \* what the entry point handed to its caller

vars == <<header, source, pixels, encoder, enc_pc, chunk_log, api, input, pos,
          dec_header, n_pixels, decoder_state, output, dec_chunks, dec_pc,
          result, returned>>

enc_vars == <<header, source, pixels, encoder, enc_pc, chunk_log>>
dec_vars == <<api, input, pos, dec_header, n_pixels, decoder_state, output,
              dec_chunks, dec_pc, result, returned>>

----------------------------------------------------------------------------
(* Bounds of the model.                                                    *)

\* longest pixel sequence handed to encode, and largest width of a header
\* of height 1
MaxPixels == 3
\* the same for the encoded streams that are damaged before they are decoded
MaxStreamPixels == 1
\* the longest sequence of equal pixels handed to encode
LongRun == 63

----------------------------------------------------------------------------
(* Machine arithmetic.                                                     *)

Byte == 0..255

Pow2(n) == IF n = 0 THEN 1 ELSE IF n = 1 THEN 2 ELSE IF n = 2 THEN 4
           ELSE IF n = 3 THEN 8 ELSE IF n = 4 THEN 16 ELSE IF n = 5 THEN 32
           ELSE IF n = 6 THEN 64 ELSE IF n = 7 THEN 128 ELSE 256

\* bit i (0 = least significant) of the byte x
Bit(x, i) == (x \div Pow2(i)) % 2

\* u8 & u8, bit by bit
and_bits(x, y) ==
    LET b(i) == Bit(x, i) * Bit(y, i) * Pow2(i)
    IN  b(0) + b(1) + b(2) + b(3) + b(4) + b(5) + b(6) + b(7)

\* u8 | u8, bit by bit
or_bits(x, y) ==
    LET b(i) == (IF Bit(x, i) + Bit(y, i) > 0 THEN 1 ELSE 0) * Pow2(i)
    IN  b(0) + b(1) + b(2) + b(3) + b(4) + b(5) + b(6) + b(7)

\* & tabulated over all pairs of bytes
AndTable == [x \in Byte |-> [y \in Byte |-> and_bits(x, y)]]

\* u8 & u8
BitAnd(x, y) == AndTable[x][y]

\* u8 | u8
BitOr(x, y) == or_bits(x, y)

\* u8 << n: the bits shifted out are lost
Shl(x, n) == (x * Pow2(n)) % 256

\* u8 >> n
Shr(x, n) == x \div Pow2(n)

\* u8::wrapping_sub
wrapping_sub(x, y) == (x - y) % 256

\* u8::wrapping_add_signed
wrapping_add_signed(x, d) == (x + d) % 256

\* i8::from_ne_bytes([x]): the byte read as a two's complement i8
u8_to_i8(x) == IF x >= 128 THEN x - 256 ELSE x

\* `v as u8` for an i8 v
i8_as_u8(v) == v % 256

\* `x as i8` for a u8 x
u8_as_i8(x) == u8_to_i8(x)

I8 == -128..127

\* Option<T>
None == [some |-> FALSE, val |-> <<>>]
Some(v) == [some |-> TRUE, val |-> v]

\* i8::checked_sub
checked_sub(x, y) == IF x - y \in I8 THEN Some(x - y) ELSE None

\* an optional value together with whether the u8 / i8 arithmetic that
\* computed it left its type: such an operation panics where overflow checks
\* are compiled in and wraps where they are not
Computed(some, val, overflow) == [some |-> some, val |-> val, overflow |-> overflow]

----------------------------------------------------------------------------
(* lib.rs: Header, Channels, Colorspace, qoi_hash.                         *)

Rgb == 3
Rgba == 4
Srgb == 0
LinearRgb == 1

Channels == {Rgb, Rgba}
Colorspace == {Srgb, LinearRgb}

Channels_from_byte(byte) == IF byte \in Channels THEN Some(byte) ELSE None

Colorspace_from_byte(byte) == IF byte \in Colorspace THEN Some(byte) ELSE None

qoi_hash(rgba) == (rgba[1] * 3 + rgba[2] * 5 + rgba[3] * 7 + rgba[4] * 11) % 64

ZeroPixel == <<0, 0, 0, 0>>
StartPixel == <<0, 0, 0, 255>>
EmptyIndexArray == [i \in 0..63 |-> ZeroPixel]

----------------------------------------------------------------------------
(* encode.rs: the Encoder.                                                 *)

\* b"qoif"
Magic == <<113, 111, 105, 102>>

\* u32::to_be_bytes
to_be_bytes(x) ==
    << (x \div 16777216) % 256, (x \div 65536) % 256, (x \div 256) % 256, x % 256 >>

\* u32::from_be_bytes
from_be_bytes(b) == ((b[1] * 256 + b[2]) * 256 + b[3]) * 256 + b[4]

\* Encoder::new
Encoder_new(h) ==
    [ header            |-> h,
      index_array       |-> EmptyIndexArray,
      previous_pixel    |-> StartPixel,
      output            |-> <<>>,
      last_op_was_index |-> FALSE ]

\* encode_header with the width written least significant byte first
encode_header_le(self) ==
    LET w == to_be_bytes(self.header.width)
    IN  Magic \o <<w[4], w[3], w[2], w[1]>> \o to_be_bytes(self.header.height)
              \o <<self.header.channels>> \o <<self.header.colorspace>>

\* Encoder::encode_header: the 14 bytes written
encode_header(self) ==
    Magic \o to_be_bytes(self.header.width) \o to_be_bytes(self.header.height)
          \o <<self.header.channels>> \o <<self.header.colorspace>>

\* the while loop of try_run breaking once run_count exceeds 62
RECURSIVE run_loop_late_break(_, _, _)
run_loop_late_break(pixel, rest, run_count) ==
    IF rest # <<>> /\ Head(rest) = pixel
    THEN IF run_count + 1 > 62
         THEN run_count + 1
         ELSE run_loop_late_break(pixel, Tail(rest), run_count + 1)
    ELSE run_count

\* the while loop of try_run: the run count after consuming the equal pixels
RECURSIVE run_loop(_, _, _)
run_loop(pixel, rest, run_count) ==
    IF rest # <<>> /\ Head(rest) = pixel
    THEN IF run_count + 1 >= 62
         THEN run_count + 1
         ELSE run_loop(pixel, Tail(rest), run_count + 1)
    ELSE run_count

\* try_run with run_count starting at 0
try_run_from_zero(self, pixel, rest) ==
    IF pixel # self.previous_pixel
    THEN None
    ELSE LET run_count == run_loop(pixel, rest, 0)
         IN  Some([ byte      |-> BitOr(Shl(3, 6), (run_count - 1) % 256),
                    run_count |-> run_count,
                    overflow  |-> run_count \notin Byte \/ run_count - 1 \notin Byte ])

\* Encoder::try_run: the Run byte and the number of pixels the run took
try_run(self, pixel, rest) ==
    IF pixel # self.previous_pixel
    THEN None
    ELSE LET run_count == run_loop(pixel, rest, 1)
         IN  Some([ byte      |-> BitOr(Shl(3, 6), (run_count - 1) % 256),
                    run_count |-> run_count,
                    overflow  |-> run_count \notin Byte \/ run_count - 1 \notin Byte ])

\* Encoder::try_encode_with_op_index
try_encode_with_op_index(self, pixel) ==
    LET index == qoi_hash(pixel)
    IN  IF self.index_array[index] = pixel THEN Some(index) ELSE None

\* the inner fn d with +2 taken for a Diff delta too
diff_d_wide(current, previous) ==
    LET d == u8_to_i8(wrapping_sub(current, previous))
    IN  IF d \in -2..2 THEN Computed(TRUE, i8_as_u8(d + 2), d + 2 \notin I8)
        ELSE Computed(FALSE, <<>>, FALSE)

\* the inner fn d of try_encode_with_op_diff
diff_d(current, previous) ==
    LET d == u8_to_i8(wrapping_sub(current, previous))
    IN  IF d \in -2..1 THEN Computed(TRUE, i8_as_u8(d + 2), d + 2 \notin I8)
        ELSE Computed(FALSE, <<>>, FALSE)

\* Encoder::try_encode_with_op_diff
try_encode_with_op_diff(self, pixel) ==
    LET dr == diff_d(pixel[1], self.previous_pixel[1])
        dg == diff_d(pixel[2], self.previous_pixel[2])
        db == diff_d(pixel[3], self.previous_pixel[3])
    IN  IF ~dr.some THEN Computed(FALSE, <<>>, FALSE)
        ELSE IF ~dg.some THEN Computed(FALSE, <<>>, dr.overflow)
        ELSE IF ~db.some THEN Computed(FALSE, <<>>, dr.overflow \/ dg.overflow)
        ELSE Computed(TRUE,
                      BitOr(BitOr(BitOr(Shl(1, 6), Shl(dr.val, 4)), Shl(dg.val, 2)), db.val),
                      dr.overflow \/ dg.overflow \/ db.overflow)

\* try_encode_with_op_luma with dr - dg = 8 taken for a Luma difference too
try_encode_with_op_luma_wide_red(self, pixel) ==
    LET dr == u8_to_i8(wrapping_sub(pixel[1], self.previous_pixel[1]))
        dg == u8_to_i8(wrapping_sub(pixel[2], self.previous_pixel[2]))
        db == u8_to_i8(wrapping_sub(pixel[3], self.previous_pixel[3]))
        drdg == checked_sub(dr, dg)
        dbdg == checked_sub(db, dg)
    IN  IF ~drdg.some
        THEN [some |-> FALSE, val |-> <<>>, panic |-> FALSE, overflow |-> FALSE]
        ELSE IF ~dbdg.some
        THEN [some |-> FALSE, val |-> <<>>, panic |-> FALSE, overflow |-> FALSE]
        ELSE IF dg \in -32..31 /\ drdg.val \in -8..8 /\ dbdg.val \in -8..7
        THEN LET drdg_u4 == i8_as_u8(drdg.val + 8)
                 dbdg_u4 == i8_as_u8(dbdg.val + 8)
                 dg_u6   == i8_as_u8(dg + 32)
             IN  [ some  |-> TRUE,
                   val   |-> << BitOr(Shl(2, 6), dg_u6),
                                BitOr(Shl(drdg_u4, 4), dbdg_u4) >>,
                   panic |-> ~ /\ BitAnd(dg_u6, 192) = 0
                               /\ BitAnd(dbdg_u4, 240) = 0
                               /\ BitAnd(dbdg_u4, 240) = 0,
                   overflow |-> \/ drdg.val + 8 \notin I8
                                \/ dbdg.val + 8 \notin I8
                                \/ dg + 32 \notin I8 ]
        ELSE [some |-> FALSE, val |-> <<>>, panic |-> FALSE, overflow |-> FALSE]

\* Encoder::try_encode_with_op_luma; panic is TRUE when one of its three
\* assert! fails, overflow when drdg + 8, dbdg + 8 or dg + 32 leaves i8
try_encode_with_op_luma(self, pixel) ==
    LET dr == u8_to_i8(wrapping_sub(pixel[1], self.previous_pixel[1]))
        dg == u8_to_i8(wrapping_sub(pixel[2], self.previous_pixel[2]))
        db == u8_to_i8(wrapping_sub(pixel[3], self.previous_pixel[3]))
        drdg == checked_sub(dr, dg)
        dbdg == checked_sub(db, dg)
    IN  IF ~drdg.some
        THEN [some |-> FALSE, val |-> <<>>, panic |-> FALSE, overflow |-> FALSE]
        ELSE IF ~dbdg.some
        THEN [some |-> FALSE, val |-> <<>>, panic |-> FALSE, overflow |-> FALSE]
        ELSE IF dg \in -32..31 /\ drdg.val \in -8..7 /\ dbdg.val \in -8..7
        THEN LET drdg_u4 == i8_as_u8(drdg.val + 8)
                 dbdg_u4 == i8_as_u8(dbdg.val + 8)
                 dg_u6   == i8_as_u8(dg + 32)
             IN  [ some  |-> TRUE,
                   val   |-> << BitOr(Shl(2, 6), dg_u6),
                                BitOr(Shl(drdg_u4, 4), dbdg_u4) >>,
                   panic |-> ~ /\ BitAnd(dg_u6, 192) = 0
                               /\ BitAnd(dbdg_u4, 240) = 0
                               /\ BitAnd(dbdg_u4, 240) = 0,
                   overflow |-> \/ drdg.val + 8 \notin I8
                                \/ dbdg.val + 8 \notin I8
                                \/ dg + 32 \notin I8 ]
        ELSE [some |-> FALSE, val |-> <<>>, panic |-> FALSE, overflow |-> FALSE]

\* try_encode_with_op_rgb writing blue, green, red
try_encode_with_op_rgb_bgr(self, pixel) ==
    IF pixel[4] = self.previous_pixel[4]
    THEN Some(<<254, pixel[3], pixel[2], pixel[1]>>)
    ELSE None

\* Encoder::try_encode_with_op_rgb
try_encode_with_op_rgb(self, pixel) ==
    IF pixel[4] = self.previous_pixel[4]
    THEN Some(<<254, pixel[1], pixel[2], pixel[3]>>)
    ELSE None

\* Encoder::encode_with_op_rgba
encode_with_op_rgba(self, pixel) == <<255, pixel[1], pixel[2], pixel[3], pixel[4]>>

\* the chain of encode_chunk with the cache looked up before the run
encode_chunk_branch_index_first(self, pixel, rest) ==
    LET run   == try_run(self, pixel, rest)
        index == try_encode_with_op_index(self, pixel)
        diff  == try_encode_with_op_diff(self, pixel)
        luma  == try_encode_with_op_luma(self, pixel)
        rgb   == try_encode_with_op_rgb(self, pixel)
        Branch(op, bytes, consumed) ==
            [op |-> op, bytes |-> bytes, consumed |-> consumed, overflow |-> FALSE]
    IN  IF index.some /\ pixel[4] = self.previous_pixel[4]
        THEN Branch("Index", <<index.val>>, 1)
        ELSE IF run.some
        THEN Branch("Run", <<run.val.byte>>, run.val.run_count)
        ELSE IF pixel[4] # self.previous_pixel[4]
        THEN Branch("Rgba", encode_with_op_rgba(self, pixel), 1)
        ELSE IF diff.some
        THEN Branch("Diff", <<diff.val>>, 1)
        ELSE IF luma.some
        THEN Branch("Luma", luma.val, 1)
        ELSE IF rgb.some
        THEN Branch("Rgb", rgb.val, 1)
        ELSE Branch("RgbaFallback", encode_with_op_rgba(self, pixel), 1)

\* the chain of encode_chunk with the cache looked up before the alpha test
encode_chunk_branch_index_before_alpha(self, pixel, rest) ==
    LET run   == try_run(self, pixel, rest)
        index == try_encode_with_op_index(self, pixel)
        diff  == try_encode_with_op_diff(self, pixel)
        luma  == try_encode_with_op_luma(self, pixel)
        rgb   == try_encode_with_op_rgb(self, pixel)
        Branch(op, bytes, consumed) ==
            [op |-> op, bytes |-> bytes, consumed |-> consumed, overflow |-> FALSE]
    IN  IF run.some
        THEN Branch("Run", <<run.val.byte>>, run.val.run_count)
        ELSE IF index.some
        THEN Branch("Index", <<index.val>>, 1)
        ELSE IF pixel[4] # self.previous_pixel[4]
        THEN Branch("Rgba", encode_with_op_rgba(self, pixel), 1)
        ELSE IF diff.some
        THEN Branch("Diff", <<diff.val>>, 1)
        ELSE IF luma.some
        THEN Branch("Luma", luma.val, 1)
        ELSE IF rgb.some
        THEN Branch("Rgb", rgb.val, 1)
        ELSE Branch("RgbaFallback", encode_with_op_rgba(self, pixel), 1)

\* the chain of encode_chunk with Luma tried before Diff
encode_chunk_branch_luma_first(self, pixel, rest) ==
    LET run   == try_run(self, pixel, rest)
        index == try_encode_with_op_index(self, pixel)
        diff  == try_encode_with_op_diff(self, pixel)
        luma  == try_encode_with_op_luma(self, pixel)
        rgb   == try_encode_with_op_rgb(self, pixel)
        Branch(op, bytes, consumed) ==
            [op |-> op, bytes |-> bytes, consumed |-> consumed, overflow |-> FALSE]
    IN  IF run.some
        THEN Branch("Run", <<run.val.byte>>, run.val.run_count)
        ELSE IF pixel[4] # self.previous_pixel[4]
        THEN Branch("Rgba", encode_with_op_rgba(self, pixel), 1)
        ELSE IF index.some
        THEN Branch("Index", <<index.val>>, 1)
        ELSE IF luma.some
        THEN Branch("Luma", luma.val, 1)
        ELSE IF diff.some
        THEN Branch("Diff", <<diff.val>>, 1)
        ELSE IF rgb.some
        THEN Branch("Rgb", rgb.val, 1)
        ELSE Branch("RgbaFallback", encode_with_op_rgba(self, pixel), 1)

\* the if / else-if chain of Encoder::encode_chunk: the branch taken for `pixel`
\* (the first pixel of the source), the bytes written, the pixels consumed,
\* and whether an arithmetic operation evaluated on the way overflowed
encode_chunk_branch(self, pixel, rest) ==
    LET run   == try_run(self, pixel, rest)
        index == try_encode_with_op_index(self, pixel)
        diff  == try_encode_with_op_diff(self, pixel)
        luma  == try_encode_with_op_luma(self, pixel)
        rgb   == try_encode_with_op_rgb(self, pixel)
        Branch(op, bytes, consumed, overflow) ==
            [op |-> op, bytes |-> bytes, consumed |-> consumed, overflow |-> overflow]
    IN  IF run.some
        THEN Branch("Run", <<run.val.byte>>, run.val.run_count, run.val.overflow)
        ELSE IF pixel[4] # self.previous_pixel[4]
        THEN Branch("Rgba", encode_with_op_rgba(self, pixel), 1, FALSE)
        ELSE IF index.some
        THEN Branch("Index", <<index.val>>, 1, FALSE)
        ELSE IF diff.some
        THEN Branch("Diff", <<diff.val>>, 1, diff.overflow)
        ELSE IF luma.some
        THEN IF luma.panic
             THEN Branch("panic", <<>>, 1, diff.overflow \/ luma.overflow)
             ELSE Branch("Luma", luma.val, 1, diff.overflow \/ luma.overflow)
        ELSE IF rgb.some
        THEN Branch("Rgb", rgb.val, 1, diff.overflow \/ luma.overflow)
        ELSE Branch("RgbaFallback", encode_with_op_rgba(self, pixel), 1,
                    diff.overflow \/ luma.overflow)

\* Encoder::update_previous_pixel, and the last two statements of encode_chunk
update_previous_pixel(self, pixel) ==
    [self EXCEPT !.previous_pixel = pixel,
                 !.index_array = [@ EXCEPT ![qoi_hash(pixel)] = pixel]]

\* encode_chunk that leaves the cache alone after a Run chunk
encode_chunk_run_skips_cache(self, pxs) ==
    LET pixel  == Head(pxs)
        branch == encode_chunk_branch(self, pixel, Tail(pxs))
        out    == [self EXCEPT !.output = @ \o branch.bytes]
    IN  IF branch.op = "Run" THEN [out EXCEPT !.previous_pixel = pixel]
        ELSE update_previous_pixel(out, pixel)

\* Encoder::encode_chunk on a non-empty source: the encoder after the chunk
encode_chunk(self, pxs) ==
    LET pixel  == Head(pxs)
        branch == encode_chunk_branch(self, pixel, Tail(pxs))
    IN  update_previous_pixel([self EXCEPT !.output = @ \o branch.bytes], pixel)

\* the source left if encode_chunk took one pixel whatever the chunk
encode_chunk_rest_one(self, pxs) == Tail(pxs)

\* the source left after Encoder::encode_chunk
encode_chunk_rest(self, pxs) ==
    LET branch == encode_chunk_branch(self, Head(pxs), Tail(pxs))
    IN  SubSeq(pxs, branch.consumed + 1, Len(pxs))

\* the 8 bytes Encoder::finish writes
EofSequence == <<0, 0, 0, 0, 0, 0, 0, 1>>

\* Encoder::finish
finish(self) == [self EXCEPT !.output = @ \o EofSequence]

\* the while loop of encode: the encoder once the source is exhausted
RECURSIVE encode_loop(_, _)
encode_loop(self, pxs) ==
    IF pxs = <<>> THEN self
    ELSE encode_loop(encode_chunk(self, pxs), encode_chunk_rest(self, pxs))

\* encode: the bytes written to the output for a header and a pixel source
encode(h, pxs) ==
    LET new == Encoder_new(h)
        hdr == [new EXCEPT !.output = @ \o encode_header(new)]
    IN  finish(encode_loop(hdr, pxs)).output

----------------------------------------------------------------------------
(* decode.rs: the decoder.                                                 *)

\* Read::read_exact on a stream of which p bytes were consumed: n more bytes,
\* or a failure (UnexpectedEof) that leaves the stream at its end
read_exact(stream, p, n) ==
    IF p + n <= Len(stream)
    THEN [ok |-> TRUE, bytes |-> SubSeq(stream, p + 1, p + n), pos |-> p + n]
    ELSE [ok |-> FALSE, bytes |-> <<>>, pos |-> Len(stream)]

\* ReadExt::read_byte
read_byte(stream, p) ==
    LET r == read_exact(stream, p, 1)
    IN  [ok |-> r.ok, byte |-> IF r.ok THEN r.bytes[1] ELSE 0, pos |-> r.pos]

\* ReadExt::read_array::<N>
read_array(stream, p, N) == read_exact(stream, p, N)

NoHeader == [width |-> 0, height |-> 0, channels |-> Rgb, colorspace |-> Srgb]

\* decode_header with the magic compared only after all 14 bytes were read
decode_header_magic_last(stream, p) ==
    LET all == read_array(stream, p, 14)
        Err(e, q) == [tag |-> e, header |-> NoHeader, pos |-> q]
    IN  IF ~all.ok THEN Err("IoError", all.pos)
        ELSE IF SubSeq(all.bytes, 1, 4) # Magic THEN Err("InvalidHeader", all.pos)
        ELSE IF ~Channels_from_byte(all.bytes[13]).some
             THEN Err("InvalidColorspace", all.pos)
        ELSE IF ~Colorspace_from_byte(all.bytes[14]).some
             THEN Err("InvalidColorspace", all.pos)
        ELSE [ tag    |-> "Ok",
               header |-> [ width      |-> from_be_bytes(SubSeq(all.bytes, 5, 8)),
                            height     |-> from_be_bytes(SubSeq(all.bytes, 9, 12)),
                            channels   |-> all.bytes[13],
                            colorspace |-> all.bytes[14] ],
               pos    |-> all.pos ]

\* decode_header: Ok with the Header, or the DecodeError, and the bytes consumed
decode_header(stream, p) ==
    LET magic  == read_array(stream, p, 4)
        width  == read_array(stream, magic.pos, 4)
        height == read_array(stream, width.pos, 4)
        chan   == read_byte(stream, height.pos)
        cspace == read_byte(stream, chan.pos)
        Err(e, q) == [tag |-> e, header |-> NoHeader, pos |-> q]
    IN  IF ~magic.ok THEN Err("IoError", magic.pos)
        ELSE IF magic.bytes # Magic THEN Err("InvalidHeader", magic.pos)
        ELSE IF ~width.ok THEN Err("IoError", width.pos)
        ELSE IF ~height.ok THEN Err("IoError", height.pos)
        ELSE IF ~chan.ok THEN Err("IoError", chan.pos)
        ELSE IF ~Channels_from_byte(chan.byte).some
             THEN Err("InvalidColorspace", chan.pos)
        ELSE IF ~cspace.ok THEN Err("IoError", cspace.pos)
        ELSE IF ~Colorspace_from_byte(cspace.byte).some
             THEN Err("InvalidColorspace", cspace.pos)
        ELSE [ tag    |-> "Ok",
               header |-> [ width      |-> from_be_bytes(width.bytes),
                            height     |-> from_be_bytes(height.bytes),
                            channels   |-> Channels_from_byte(chan.byte).val,
                            colorspace |-> Colorspace_from_byte(cspace.byte).val ],
               pos    |-> cspace.pos ]

\* the inner fn msb2 of read_chunk
msb2(x) == Shr(BitAnd(x, 192), 6)

\* lsb6 with a mask of seven bits
lsb6_seven_bits(x) == BitAnd(x, 127)

\* the inner fn lsb6 of read_chunk
lsb6(x) == BitAnd(x, 63)

\* the variants of Chunk
Chunk_Rgb(rgb) == [tag |-> "Rgb", rgb |-> rgb]
Chunk_Rgba(rgba) == [tag |-> "Rgba", rgba |-> rgba]
Chunk_Index(index) == [tag |-> "Index", index |-> index]
Chunk_Diff(dr, dg, db) == [tag |-> "Diff", dr |-> dr, dg |-> dg, db |-> db]
Chunk_Luma(dg, dr_dg, db_dg) == [tag |-> "Luma", dg |-> dg, dr_dg |-> dr_dg, db_dg |-> db_dg]
Chunk_Run(run) == [tag |-> "Run", run |-> run]

\* an i8 or u8 operation of read_chunk or decode_chunk leaves its type
i8_overflows(v) == v \notin I8
u8_overflows(v) == v \notin Byte

\* the arithmetic of the arm of read_chunk that byte0 (and byte1) select
\* overflows: `as i8 - 2`, `as i8 - 32`, `as i8 - 8`, `lsb6(byte0) + 1`
read_chunk_overflows(byte0, byte1) ==
    IF byte0 \in {254, 255} \/ msb2(byte0) = 0 THEN FALSE
    ELSE IF msb2(byte0) = 1
    THEN \/ i8_overflows(u8_as_i8(Shr(BitAnd(byte0, 48), 4)) - 2)
         \/ i8_overflows(u8_as_i8(Shr(BitAnd(byte0, 12), 2)) - 2)
         \/ i8_overflows(u8_as_i8(BitAnd(byte0, 3)) - 2)
    ELSE IF msb2(byte0) = 2
    THEN \/ i8_overflows(u8_as_i8(lsb6(byte0)) - 32)
         \/ i8_overflows(u8_as_i8(Shr(BitAnd(byte1, 240), 4)) - 8)
         \/ i8_overflows(u8_as_i8(BitAnd(byte1, 15)) - 8)
    ELSE u8_overflows(lsb6(byte0) + 1)

\* read_chunk: the Chunk read at p and the bytes consumed; tag "IoError" stands
\* for Err(DecodeError::IoError), tag "unreachable" for the last match arm
read_chunk(stream, p) ==
    LET first == read_byte(stream, p)
        byte0 == first.byte
        rgb   == read_array(stream, first.pos, 3)
        rgba  == read_array(stream, first.pos, 4)
        second == read_byte(stream, first.pos)
        byte1 == second.byte
        Io(q) == [chunk |-> [tag |-> "IoError"], pos |-> q]
    IN  IF ~first.ok THEN Io(first.pos)
        ELSE IF byte0 = 254
        THEN IF rgb.ok THEN [chunk |-> Chunk_Rgb(rgb.bytes), pos |-> rgb.pos]
                       ELSE Io(rgb.pos)
        ELSE IF byte0 = 255
        THEN IF rgba.ok THEN [chunk |-> Chunk_Rgba(rgba.bytes), pos |-> rgba.pos]
                        ELSE Io(rgba.pos)
        ELSE IF msb2(byte0) = 0
        THEN [chunk |-> Chunk_Index(lsb6(byte0)), pos |-> first.pos]
        ELSE IF msb2(byte0) = 1
        THEN [chunk |-> Chunk_Diff(u8_as_i8(Shr(BitAnd(byte0, 48), 4)) - 2,
                                   u8_as_i8(Shr(BitAnd(byte0, 12), 2)) - 2,
                                   u8_as_i8(BitAnd(byte0, 3)) - 2),
              pos |-> first.pos]
        ELSE IF msb2(byte0) = 2
        THEN IF second.ok
             THEN [chunk |-> Chunk_Luma(u8_as_i8(lsb6(byte0)) - 32,
                                        u8_as_i8(Shr(BitAnd(byte1, 240), 4)) - 8,
                                        u8_as_i8(BitAnd(byte1, 15)) - 8),
                   pos |-> second.pos]
             ELSE Io(second.pos)
        ELSE IF msb2(byte0) = 3
        THEN [chunk |-> Chunk_Run(lsb6(byte0) + 1), pos |-> first.pos]
        ELSE [chunk |-> [tag |-> "unreachable"], pos |-> first.pos]

\* DecoderState::new
DecoderState_new(h) ==
    [ header         |-> h,
      index_array    |-> EmptyIndexArray,
      previous_pixel |-> StartPixel,
      n_pixels       |-> 0 ]

\* the match of decode_chunk with a Luma arm that adds dr_dg and db_dg alone
current_pixel_luma_plain(state, chunk) ==
    IF chunk.tag = "Rgb"
    THEN <<chunk.rgb[1], chunk.rgb[2], chunk.rgb[3], state.previous_pixel[4]>>
    ELSE IF chunk.tag = "Rgba"
    THEN chunk.rgba
    ELSE IF chunk.tag = "Index"
    THEN state.index_array[chunk.index]
    ELSE IF chunk.tag = "Diff"
    THEN << wrapping_add_signed(state.previous_pixel[1], chunk.dr),
            wrapping_add_signed(state.previous_pixel[2], chunk.dg),
            wrapping_add_signed(state.previous_pixel[3], chunk.db),
            state.previous_pixel[4] >>
    ELSE << wrapping_add_signed(state.previous_pixel[1], chunk.dr_dg),
            wrapping_add_signed(state.previous_pixel[2], chunk.dg),
            wrapping_add_signed(state.previous_pixel[3], chunk.db_dg),
            state.previous_pixel[4] >>

\* the match of decode_chunk: the pixel a non-Run chunk stands for
current_pixel(state, chunk) ==
    IF chunk.tag = "Rgb"
    THEN <<chunk.rgb[1], chunk.rgb[2], chunk.rgb[3], state.previous_pixel[4]>>
    ELSE IF chunk.tag = "Rgba"
    THEN chunk.rgba
    ELSE IF chunk.tag = "Index"
    THEN state.index_array[chunk.index]
    ELSE IF chunk.tag = "Diff"
    THEN << wrapping_add_signed(state.previous_pixel[1], chunk.dr),
            wrapping_add_signed(state.previous_pixel[2], chunk.dg),
            wrapping_add_signed(state.previous_pixel[3], chunk.db),
            state.previous_pixel[4] >>
    ELSE << wrapping_add_signed(state.previous_pixel[1], chunk.dr_dg + chunk.dg),
            wrapping_add_signed(state.previous_pixel[2], chunk.dg),
            wrapping_add_signed(state.previous_pixel[3], chunk.db_dg + chunk.dg),
            state.previous_pixel[4] >>

\* the bytes written for one pixel: 3 for Channels::Rgb, 4 for Channels::Rgba
write_pixel(state, pixel) ==
    IF state.header.channels = Rgb THEN SubSeq(pixel, 1, 3) ELSE pixel

\* the for loop of the Run arm running one time less
write_run_one_less(state, run) ==
    LET px == write_pixel(state, state.previous_pixel)
    IN  [i \in 1..((run - 1) * Len(px)) |-> px[((i - 1) % Len(px)) + 1]]

\* the for loop of the Chunk::Run arm: previous_pixel written `run` times
write_run(state, run) ==
    LET px == write_pixel(state, state.previous_pixel)
    IN  [i \in 1..(run * Len(px)) |-> px[((i - 1) % Len(px)) + 1]]

\* the i8 sums dr_dg + dg and db_dg + dg of the Luma arm of decode_chunk
luma_sum_overflows(chunk) ==
    /\ chunk.tag = "Luma"
    /\ i8_overflows(chunk.dr_dg + chunk.dg) \/ i8_overflows(chunk.db_dg + chunk.dg)

\* an arithmetic operation overflows while decode_chunk reads and applies the
\* chunk at p: it panics where overflow checks are compiled in, wraps elsewhere
decode_chunk_overflows(state, stream, p) ==
    LET rd     == read_chunk(stream, p)
        first  == read_byte(stream, p)
        second == read_byte(stream, first.pos)
    IN  /\ rd.chunk.tag \notin {"IoError", "unreachable"}
        /\ \/ read_chunk_overflows(first.byte, second.byte)
           \/ luma_sum_overflows(rd.chunk)

\* decode_chunk: the result ("Ok", "IoError" or "panic"), the state after the
\* chunk, the bytes consumed and the bytes written
decode_chunk(state, stream, p) ==
    LET rd    == read_chunk(stream, p)
        chunk == rd.chunk
        pixel == current_pixel(state, chunk)
    IN  IF chunk.tag = "IoError"
        THEN [tag |-> "IoError", state |-> state, pos |-> rd.pos, written |-> <<>>,
              chunk |-> chunk]
        ELSE IF chunk.tag = "unreachable"
        THEN [tag |-> "panic", state |-> state, pos |-> rd.pos, written |-> <<>>,
              chunk |-> chunk]
        ELSE IF chunk.tag = "Run"
        THEN [tag     |-> "Ok",
              state   |-> [state EXCEPT !.n_pixels = @ + chunk.run],
              pos     |-> rd.pos,
              written |-> write_run(state, chunk.run),
              chunk   |-> chunk]
        ELSE [tag     |-> "Ok",
              state   |-> [state EXCEPT
                              !.index_array = [@ EXCEPT ![qoi_hash(pixel)] = pixel],
                              !.previous_pixel = pixel,
                              !.n_pixels = @ + 1],
              pos     |-> rd.pos,
              written |-> write_pixel(state, pixel),
              chunk   |-> chunk]

\* verify_eof_sequence with the eighth byte read but not compared
verify_eof_sequence_any_last(stream, p) ==
    LET seven == read_array(stream, p, 7)
        last  == read_byte(stream, seven.pos)
    IN  IF ~seven.ok THEN [tag |-> "IoError", pos |-> seven.pos]
        ELSE IF seven.bytes # <<0, 0, 0, 0, 0, 0, 0>>
        THEN [tag |-> "InvalidEofSequence", pos |-> seven.pos]
        ELSE IF ~last.ok THEN [tag |-> "IoError", pos |-> last.pos]
        ELSE [tag |-> "Ok", pos |-> last.pos]

\* verify_eof_sequence: the result and the bytes consumed
verify_eof_sequence(stream, p) ==
    LET seven == read_array(stream, p, 7)
        last  == read_byte(stream, seven.pos)
    IN  IF ~seven.ok THEN [tag |-> "IoError", pos |-> seven.pos]
        ELSE IF seven.bytes # <<0, 0, 0, 0, 0, 0, 0>>
        THEN [tag |-> "InvalidEofSequence", pos |-> seven.pos]
        ELSE IF ~last.ok THEN [tag |-> "IoError", pos |-> last.pos]
        ELSE IF last.byte # 1 THEN [tag |-> "InvalidEofSequence", pos |-> last.pos]
        ELSE [tag |-> "Ok", pos |-> last.pos]

\* u32 * u32, from the bytes of the factors: `overflow` when the product does
\* not fit in 32 bits (a panic with overflow checks on), `wrapped` the low 32
\* bits (the product without them)
mul_u32(x, y) ==
    LET a == to_be_bytes(x)
        b == to_be_bytes(y)
        \* the factors' bytes, least significant first
        A(i) == a[4 - i]
        B(i) == b[4 - i]
        c0 == A(0) * B(0)
        c1 == A(0) * B(1) + A(1) * B(0) + (c0 \div 256)
        c2 == A(0) * B(2) + A(1) * B(1) + A(2) * B(0) + (c1 \div 256)
        c3 == A(0) * B(3) + A(1) * B(2) + A(2) * B(1) + A(3) * B(0) + (c2 \div 256)
        c4 == A(1) * B(3) + A(2) * B(2) + A(3) * B(1) + (c3 \div 256)
        c5 == A(2) * B(3) + A(3) * B(2) + (c4 \div 256)
        c6 == A(3) * B(3) + (c5 \div 256)
    IN  [ overflow |-> c4 % 256 # 0 \/ c5 % 256 # 0 \/ c6 # 0,
          wrapped  |-> from_be_bytes(<<c3 % 256, c2 % 256, c1 % 256, c0 % 256>>) ]

----------------------------------------------------------------------------
(* The inputs of the model.                                                *)

\* a width (0x01020000) and a height (0x00010000) whose product does not fit
\* in a u32 and is 0 modulo 2^32
BigWidth == 258 * 65536
BigHeight == 256 * 256

Dims == {<<w, 1>> : w \in 0..MaxPixels} \cup {<<BigWidth, BigHeight>>}

Headers ==
    { [width |-> d[1], height |-> d[2], channels |-> c, colorspace |-> s] :
        d \in Dims, c \in Channels, s \in Colorspace }

\* the pixels the sources are made of: the start pixel, a Diff and a Luma step
\* away from it, a pixel of the same hash as the start pixel, the all-zero
\* pixel and a pixel of the same hash and alpha as the all-zero pixel
Pixels ==
    { StartPixel, <<0, 0, 1, 255>>, <<5, 8, 5, 255>>, <<64, 0, 0, 255>>,
      ZeroPixel, <<64, 0, 0, 0>> }

RECURSIVE SeqsUpTo(_, _)
SeqsUpTo(S, n) ==
    IF n = 0 THEN {<<>>}
    ELSE LET shorter == SeqsUpTo(S, n - 1)
         IN  shorter \cup {Append(q, x) : q \in {r \in shorter : Len(r) = n - 1}, x \in S}

Sources == SeqsUpTo(Pixels, MaxPixels)

\* The byte streams handed to decode on their own: the encodings of short
\* sources, whole, cut short at every length, with one byte changed, and with
\* a byte appended.
StreamHeaders ==
    { [width |-> d[1], height |-> d[2], channels |-> c, colorspace |-> s] :
        d \in {<<w, 1>> : w \in 0..MaxStreamPixels} \cup {<<BigWidth, BigHeight>>},
        c \in Channels, s \in Colorspace }

Encodings == {encode(h, src) : h \in StreamHeaders, src \in SeqsUpTo(Pixels, MaxStreamPixels)}

Prefixes(b) == {SubSeq(b, 1, n) : n \in 0..Len(b)}

Deltas == {1, 2}

Damaged(b) == {[b EXCEPT ![i] = (@ + d) % 256] : i \in 1..Len(b), d \in Deltas}

Streams ==
    UNION { Prefixes(b) \cup Damaged(b) \cup {Append(b, 0)} : b \in Encodings }

\* the public decode entry points
Apis == {"decode", "decode_to_vec", "decode_from_data", "decode_from_file",
         "decode_from_file_to_vec"}

\* the entry points that open the file at a path and decode what it holds
FileApis == {"decode_from_file", "decode_from_file_to_vec"}

----------------------------------------------------------------------------
(* encode: header, one chunk per loop iteration, end marker.               *)

EncoderIdle ==
    /\ header = NoHeader
    /\ source = <<>>
    /\ pixels = <<>>
    /\ encoder = Encoder_new(NoHeader)
    /\ enc_pc = "idle"
    /\ chunk_log = <<>>

DecoderIdle ==
    /\ api = "none"
    /\ input = <<>>
    /\ pos = 0
    /\ dec_header = NoHeader
    /\ n_pixels = 0
    /\ decoder_state = DecoderState_new(NoHeader)
    /\ output = <<>>
    /\ dec_chunks = <<>>
    /\ dec_pc = "idle"
    /\ result = "none"
    /\ returned = "none"

\* encode was called with a header and a pixel source; Encoder::new has run
Init ==
    /\ header \in Headers
    /\ source \in Sources
    /\ pixels = source
    /\ encoder = Encoder_new(header)
    /\ enc_pc = "encode_header"
    /\ chunk_log = <<>>
    /\ DecoderIdle

EncodeHeader ==
    /\ enc_pc = "encode_header"
    /\ encoder' = [encoder EXCEPT !.output = @ \o encode_header(encoder)]
    /\ enc_pc' = "encode_chunk"
    /\ UNCHANGED <<header, source, pixels, chunk_log>>
    /\ UNCHANGED dec_vars

\* one iteration of the while loop of encode; an assert! that fails panics,
\* an arithmetic overflow panics or wraps
EncodeChunk ==
    /\ enc_pc = "encode_chunk"
    /\ pixels # <<>>
    /\ LET branch == encode_chunk_branch(encoder, Head(pixels), Tail(pixels))
           after  == encode_chunk(encoder, pixels)
       IN  \/ /\ branch.op = "panic" \/ branch.overflow
              /\ enc_pc' = "panic"
              /\ UNCHANGED <<encoder, pixels, chunk_log>>
           \/ /\ branch.op # "panic"
              /\ encoder' = after
              /\ pixels' = encode_chunk_rest(encoder, pixels)
              /\ chunk_log' = Append(chunk_log,
                                 [ op             |-> branch.op,
                                   bytes          |-> branch.bytes,
                                   pixel          |-> Head(pixels),
                                   consumed       |-> branch.consumed,
                                   previous_pixel |-> after.previous_pixel,
                                   index_array    |-> after.index_array ])
              /\ enc_pc' = "encode_chunk"
    /\ UNCHANGED <<header, source>>
    /\ UNCHANGED dec_vars

Finish ==
    /\ enc_pc = "encode_chunk"
    /\ pixels = <<>>
    /\ encoder' = finish(encoder)
    /\ enc_pc' = "done"
    /\ UNCHANGED <<header, source, pixels, chunk_log>>
    /\ UNCHANGED dec_vars

----------------------------------------------------------------------------
(* decode: header, one chunk per loop iteration, end marker, return.       *)

\* decode is called on the encoded stream
Call ==
    /\ enc_pc = "done"
    /\ dec_pc = "idle"
    /\ input' = encoder.output
    /\ dec_pc' = "decode_header"
    /\ UNCHANGED <<api, pos, dec_header, n_pixels, decoder_state, output, dec_chunks,
                   result, returned>>
    /\ UNCHANGED enc_vars

\* decode_from_file or decode_from_file_to_vec was called with a path at
\* which no file can be opened: the unwrap() of open(&path) panics before
\* decode is called; nothing is read and nothing is written
OpenFails(a) ==
    /\ dec_pc = "decode_header"
    /\ api' = a
    /\ returned' = "panic"
    /\ dec_pc' = "open_failed"
    /\ UNCHANGED <<input, pos, dec_header, n_pixels, decoder_state, output,
                   dec_chunks, result>>
    /\ UNCHANGED enc_vars

\* the first three statements of decode: decode_header, the loop bound
\* width * height (a u32 product: with overflow checks it panics on overflow,
\* without them it wraps) and DecoderState::new
DecodeHeader ==
    /\ dec_pc = "decode_header"
    /\ LET h == decode_header(input, pos)
           m == mul_u32(h.header.width, h.header.height)
       IN  /\ pos' = h.pos
           /\ IF h.tag # "Ok"
              THEN /\ result' = h.tag
                   /\ dec_pc' = "return"
                   /\ UNCHANGED <<dec_header, n_pixels, decoder_state>>
              ELSE /\ dec_header' = h.header
                   /\ \/ /\ m.overflow
                         /\ result' = "panic"
                         /\ dec_pc' = "return"
                         /\ UNCHANGED <<n_pixels, decoder_state>>
                      \/ /\ n_pixels' = m.wrapped
                         /\ decoder_state' = DecoderState_new(h.header)
                         /\ dec_pc' = "decode_chunk"
                         /\ UNCHANGED result
    /\ UNCHANGED <<api, input, output, dec_chunks, returned>>
    /\ UNCHANGED enc_vars

\* one iteration of the while loop of decode
DecodeChunk ==
    /\ dec_pc = "decode_chunk"
    /\ decoder_state.n_pixels < n_pixels
    /\ LET d == decode_chunk(decoder_state, input, pos)
       IN  \/ /\ decode_chunk_overflows(decoder_state, input, pos)
              /\ result' = "panic"
              /\ dec_pc' = "return"
              /\ UNCHANGED <<pos, decoder_state, output, dec_chunks>>
           \/ /\ pos' = d.pos
              /\ decoder_state' = d.state
              /\ output' = output \o d.written
              /\ IF d.tag = "Ok"
                 THEN /\ dec_chunks' = Append(dec_chunks, d.chunk)
                      /\ UNCHANGED <<dec_pc, result>>
                 ELSE /\ result' = d.tag
                      /\ dec_pc' = "return"
                      /\ UNCHANGED dec_chunks
    /\ UNCHANGED <<api, input, dec_header, n_pixels, returned>>
    /\ UNCHANGED enc_vars

\* the loop of decode has ended: verify_eof_sequence, then Ok(header)
VerifyEofSequence ==
    /\ dec_pc = "decode_chunk"
    /\ ~(decoder_state.n_pixels < n_pixels)
    /\ LET v == verify_eof_sequence(input, pos)
       IN  /\ pos' = v.pos
           /\ result' = v.tag
    /\ dec_pc' = "return"
    /\ UNCHANGED <<api, input, dec_header, n_pixels, decoder_state, output,
                   dec_chunks, returned>>
    /\ UNCHANGED enc_vars

\* decode returns to the entry point a that called it, and a hands its own
\* result to the caller: decode its Result, the four others (decode_to_vec,
\* decode_from_data, decode_from_file on a file that was opened,
\* decode_from_file_to_vec likewise) Ok of the unwrap() of it, which panics
\* on Err
Return(a) ==
    /\ dec_pc = "return"
    /\ api' = a
    /\ returned' = IF a = "decode" THEN result
                   ELSE IF result = "Ok" THEN "Ok" ELSE "panic"
    /\ dec_pc' = "done"
    /\ UNCHANGED <<input, pos, dec_header, n_pixels, decoder_state, output,
                   dec_chunks, result>>
    /\ UNCHANGED enc_vars

Next ==
    \/ EncodeHeader
    \/ EncodeChunk
    \/ Finish
    \/ Call
    \/ DecodeHeader
    \/ DecodeChunk
    \/ VerifyEofSequence
    \/ \E a \in Apis : Return(a)
    \/ \E a \in FileApis : OpenFails(a)

Spec == Init /\ [][Next]_vars

\* decode on its own: it is called on a byte stream that no encoder of this
\* model has to have written
InitDecode ==
    /\ EncoderIdle
    /\ api = "none"
    /\ input \in Streams
    /\ pos = 0
    /\ dec_header = NoHeader
    /\ n_pixels = 0
    /\ decoder_state = DecoderState_new(NoHeader)
    /\ output = <<>>
    /\ dec_chunks = <<>>
    /\ dec_pc = "decode_header"
    /\ result = "none"
    /\ returned = "none"

NextDecode ==
    \/ DecodeHeader
    \/ DecodeChunk
    \/ VerifyEofSequence
    \/ \E a \in Apis : Return(a)
    \/ \E a \in FileApis : OpenFails(a)

SpecDecode == InitDecode /\ [][NextDecode]_vars

----------------------------------------------------------------------------
(* encode on sources built around the limits of the chunk encodings.       *)

\* the pixels the boundary sources start from
BasePixels == {StartPixel, <<255, 255, 255, 255>>, <<10, 10, 10, 255>>}

\* the green deltas around the limits of Diff (-2..1) and of Luma (-32..31)
GreenDeltas == {-128, -33, -32, -3, -2, -1, 0, 1, 2, 31, 32, 127}

\* the differences dr - dg and db - dg around the limits of Luma (-8..7), and
\* those that put dr and db on the limits of Diff next to a dg on them
LumaOffsets == {-9, -8, -4, -3, -1, 0, 1, 3, 4, 7, 8}

\* the alpha of the second pixel: 0 keeps the alpha of the first
AlphaDeltas == {0, 255}

\* the pixel dg away from p in green, dg + or away in red, dg + ob away in
\* blue and da away in alpha, each channel modulo 256
Neighbour(p, dg, or, ob, da) ==
    << (p[1] + dg + or) % 256, (p[2] + dg) % 256, (p[3] + dg + ob) % 256,
       (p[4] + da) % 256 >>

\* a pixel, a pixel near it, the first pixel again
NearSources ==
    { <<p, Neighbour(p, dg, or, ob, da), p>> :
        p \in BasePixels, dg \in GreenDeltas, or \in LumaOffsets, ob \in LumaOffsets,
        da \in AlphaDeltas }

\* sequences of equal pixels around the longest run of one chunk (62)
RunSources ==
    { [i \in 1..n |-> p] : p \in BasePixels, n \in {LongRun - 2, LongRun - 1, LongRun} }

BoundarySources == NearSources \cup RunSources

\* encode was called with a boundary source and a 4-channel header of its
\* length
InitBoundary ==
    /\ source \in BoundarySources
    /\ header = [width |-> Len(source), height |-> 1, channels |-> Rgba,
                 colorspace |-> Srgb]
    /\ pixels = source
    /\ encoder = Encoder_new(header)
    /\ enc_pc = "encode_header"
    /\ chunk_log = <<>>
    /\ DecoderIdle

SpecBoundary == InitBoundary /\ [][Next]_vars

----------------------------------------------------------------------------
(* decode on streams of two chunks: an RGBA chunk that sets previous_pixel *)
(* and one chunk of every first byte.                                      *)

\* the pixels the first chunk sets
PreviousPixels == {StartPixel, <<250, 3, 128, 7>>}

\* the second bytes of the Luma chunks: both nibbles at and next to their ends
LumaSecondBytes == {16 * hi + lo : hi \in {0, 7, 8, 15}, lo \in {0, 7, 8, 15}}

\* what follows the first byte of the second chunk
Payloads(byte0) ==
    IF byte0 = 254 THEN {<<1, 2, 3>>, <<255, 0, 128>>}
    ELSE IF byte0 = 255 THEN {<<1, 2, 3, 4>>, <<255, 0, 128, 255>>}
    ELSE IF byte0 \in 128..191 THEN {<<b1>> : b1 \in LumaSecondBytes}
    ELSE {<<>>}

ChunkHeaders ==
    { [width |-> 2, height |-> 1, channels |-> c, colorspace |-> Srgb] : c \in Channels }

\* the header, the RGBA chunk of p, the chunk of byte0, the end marker
TwoChunkStream(h, p, byte0, payload) ==
    encode_header(Encoder_new(h)) \o encode_with_op_rgba(Encoder_new(h), p)
        \o <<byte0>> \o payload \o EofSequence

ChunkStreams ==
    UNION { { TwoChunkStream(h, p, byte0, payload) :
                h \in ChunkHeaders, p \in PreviousPixels, payload \in Payloads(byte0) } :
            byte0 \in Byte }

InitChunk ==
    /\ EncoderIdle
    /\ api = "none"
    /\ input \in ChunkStreams
    /\ pos = 0
    /\ dec_header = NoHeader
    /\ n_pixels = 0
    /\ decoder_state = DecoderState_new(NoHeader)
    /\ output = <<>>
    /\ dec_chunks = <<>>
    /\ dec_pc = "decode_header"
    /\ result = "none"
    /\ returned = "none"

SpecChunk == InitChunk /\ [][NextDecode]_vars

----------------------------------------------------------------------------
(* The properties.                                                         *)

\* decode has returned (or panicked)
Finished == dec_pc \in {"return", "done"}

\* the flat pixel buffer of a pixel sequence: 3 or 4 bytes per pixel
RECURSIVE PixelBytes(_, _)
PixelBytes(channels, pxs) ==
    IF pxs = <<>> THEN <<>>
    ELSE (IF channels = Rgb THEN SubSeq(Head(pxs), 1, 3) ELSE Head(pxs))
         \o PixelBytes(channels, Tail(pxs))

\* width * height of a header is the number n (the product as a number, not
\* as a u32)
ProductIs(h, n) ==
    LET m == mul_u32(h.width, h.height) IN ~m.overflow /\ m.wrapped = n

\* n is less than width * height of a header
BelowProduct(h, n) ==
    LET m == mul_u32(h.width, h.height) IN m.overflow \/ n < m.wrapped

\* the bytes of the chunks of a chunk log, in order
RECURSIVE ChunkStream(_)
ChunkStream(log) ==
    IF log = <<>> THEN <<>> ELSE Head(log).bytes \o ChunkStream(Tail(log))

\* C1: round trip: decoding the encoding of a header and of exactly
\* width * height pixels (alpha 255 throughout under a 3-channel header)
\* succeeds and yields the same header and exactly the original pixel bytes.
RoundTrip ==
    ( /\ Finished
      /\ ProductIs(header, Len(source))
      /\ header.channels = Rgb => \A i \in 1..Len(source) : source[i][4] = 255 )
    => /\ result = "Ok"
       /\ dec_header = header
       /\ output = PixelBytes(header.channels, source)

\* C2: lockstep: after the decoder has applied the k-th chunk of the stream
\* the encoder wrote, its previous_pixel and its whole index cache equal the
\* encoder's just after it emitted its k-th chunk.
Lockstep ==
    LET k == Len(dec_chunks)
    IN  (dec_pc # "idle" /\ k >= 1 /\ k <= Len(chunk_log))
        => /\ decoder_state.previous_pixel = chunk_log[k].previous_pixel
           /\ decoder_state.index_array = chunk_log[k].index_array

\* C3: wire layout: the encoder's output is 'qoif', width and height as
\* big-endian u32, the channels byte (3 or 4), the colorspace byte (0 or 1),
\* the chunk stream and the 8 bytes 0,0,0,0,0,0,0,1; and decode_header on
\* the first 14 bytes returns the header.
WireLayout ==
    enc_pc = "done" =>
        LET out == encoder.output
            cs  == ChunkStream(chunk_log)
        IN  /\ Len(out) = 14 + Len(cs) + 8
            /\ SubSeq(out, 1, 4) = <<113, 111, 105, 102>>
            /\ \A i \in 1..Len(out) : out[i] \in 0..255
            /\ ((out[5] * 256 + out[6]) * 256 + out[7]) * 256 + out[8] = header.width
            /\ ((out[9] * 256 + out[10]) * 256 + out[11]) * 256 + out[12] = header.height
            /\ out[13] = header.channels /\ out[13] \in {3, 4}
            /\ out[14] = header.colorspace /\ out[14] \in {0, 1}
            /\ SubSeq(out, 15, 14 + Len(cs)) = cs
            /\ SubSeq(out, Len(out) - 7, Len(out)) = <<0, 0, 0, 0, 0, 0, 0, 1>>
            /\ decode_header(SubSeq(out, 1, 14), 0)
                 = [tag |-> "Ok", header |-> header, pos |-> 14]
            /\ dec_pc \in {"decode_chunk", "done"} => dec_header = header

WireLayoutWitness ==
    /\ enc_pc = "done"
    /\ header.width = BigWidth
    /\ header.channels = Rgba
    /\ header.colorspace = LinearRgb
    /\ Len(chunk_log) >= 2
    /\ dec_pc = "decode_chunk"
    /\ dec_header = header

\* the first four bytes of the input are there and are not 'qoif'
BadMagic == Len(input) >= 4 /\ SubSeq(input, 1, 4) # <<113, 111, 105, 102>>

\* C4: malformed magic: on a stream whose first 4 bytes are not 'qoif' decode
\* returns InvalidHeader after consuming exactly those 4 bytes: no other
\* header field and no chunk is read and nothing is written.
MalformedMagic ==
    BadMagic =>
        /\ pos <= 4
        /\ output = <<>>
        /\ dec_chunks = <<>>
        /\ dec_pc # "decode_chunk"
        /\ Finished => result = "InvalidHeader" /\ pos = 4

MalformedMagicWitness ==
    /\ BadMagic
    /\ Len(input) > 14
    /\ dec_pc = "done"
    /\ api = "decode"
    /\ returned = "InvalidHeader"

\* C5: header field errors have their own kind: with the right magic, a
\* channels byte other than 3 or 4 gives InvalidNumberOfChannels, and with a
\* valid channels byte a colorspace byte other than 0 or 1 gives
\* InvalidColorspace.
HeaderFieldErrors ==
    (Finished /\ Len(input) >= 14 /\ SubSeq(input, 1, 4) = <<113, 111, 105, 102>>)
    => /\ input[13] \notin {3, 4} => result = "InvalidNumberOfChannels"
       /\ (input[13] \in {3, 4} /\ input[14] \notin {0, 1}) => result = "InvalidColorspace"

\* C6: truncation: on a stream with a valid header that ends before
\* width * height pixels have been produced decode returns IoError, never Ok.
Truncation ==
    LET h == decode_header(input, 0)
    IN  (Finished /\ h.tag = "Ok" /\ BelowProduct(h.header, decoder_state.n_pixels))
        => result = "IoError"

\* C7: end marker: when the loop of decode has ended, decode succeeds only if
\* the next 8 bytes are seven 0 and a 1, any other 8 bytes give
\* InvalidEofSequence, on success exactly those 8 bytes are consumed, and
\* nothing is read after decode has returned.
EndMarker ==
    [][ /\ (dec_pc = "decode_chunk" /\ ~(decoder_state.n_pixels < n_pixels))
           => /\ result' = "Ok"
                   <=> /\ Len(input) >= pos + 8
                       /\ SubSeq(input, pos + 1, pos + 8) = <<0, 0, 0, 0, 0, 0, 0, 1>>
              /\ (Len(input) >= pos + 8 /\ result' # "Ok")
                   => result' = "InvalidEofSequence"
              /\ result' = "Ok" => pos' = pos + 8
              /\ output' = output
        /\ Finished => (pos' = pos /\ result' = result /\ output' = output)
      ]_vars

EndMarkerWitness ==
    /\ dec_pc = "done"
    /\ result = "Ok"
    /\ Len(dec_chunks) >= 1
    /\ Len(input) = pos + 1

\* C8: errors are values: when decode fails, decode_to_vec and
\* decode_from_data return Err of the same error kind; they neither panic nor
\* return Ok.
ErrorsAsValues ==
    ( /\ dec_pc = "done"
      /\ api \in {"decode_to_vec", "decode_from_data"}
      /\ result \in {"IoError", "InvalidHeader", "InvalidNumberOfChannels",
                     "InvalidColorspace", "InvalidEofSequence"} )
    => returned = result

\* C9: exact pixel count: whenever decode returns Ok (for a header whose
\* width * height fits in a u32) the decoder's pixel count is width * height
\* and the output holds width * height pixels of 3 or 4 bytes; for
\* width * height = 0 no chunk is read and nothing is written.
ExactPixelCount ==
    (Finished /\ result = "Ok" /\ ~mul_u32(dec_header.width, dec_header.height).overflow)
    => LET n == mul_u32(dec_header.width, dec_header.height).wrapped
       IN  /\ decoder_state.n_pixels = n
           /\ Len(output) = n * dec_header.channels
           /\ n = 0 => dec_chunks = <<>> /\ output = <<>>

\* the state the encoder was in before it emitted its k-th chunk, as the
\* state of a decoder of a 4-channel stream
BeforeChunk(k) ==
    [ header         |-> [NoHeader EXCEPT !.channels = Rgba],
      index_array    |-> IF k = 1 THEN EmptyIndexArray ELSE chunk_log[k - 1].index_array,
      previous_pixel |-> IF k = 1 THEN StartPixel ELSE chunk_log[k - 1].previous_pixel,
      n_pixels       |-> 0 ]

\* the chunks read_chunk yields from a stream of exactly one byte (every
\* Index, Diff and Run chunk)
OneByteChunks ==
    { read_chunk(<<b>>, 0).chunk :
        b \in {x \in Byte : /\ read_chunk(<<x>>, 0).pos = 1
                            /\ read_chunk(<<x>>, 0).chunk.tag # "IoError"} }

\* the first bytes of the chunks of exactly two bytes (the Luma chunks)
LumaFirstBytes ==
    {x \in Byte : /\ read_chunk(<<x, 0>>, 0).pos = 2
                  /\ read_chunk(<<x, 0>>, 0).chunk.tag # "IoError"}

\* the chunks read_chunk yields from the two-byte streams, by first byte
TwoByteChunks ==
    [b0 \in LumaFirstBytes |-> { read_chunk(<<b0, b1>>, 0).chunk : b1 \in Byte }]

\* one chunk for each first byte of a two-byte chunk
OfFirstByte == [b0 \in LumaFirstBytes |-> read_chunk(<<b0, 0>>, 0).chunk]

\* a decoder in state st that is handed `chunk` writes the single pixel p:
\* a Run of one when p is the previous pixel, or any other chunk whose
\* current_pixel is p
Reconstructs(st, chunk, p) ==
    IF chunk.tag = "Run"
    THEN chunk.run = 1 /\ st.previous_pixel = p
    ELSE current_pixel(st, chunk) = p

\* the Index chunks try_encode_with_op_index can yield for p in state st: the
\* one of slot hash(p), and none when the alpha of p is not the previous one
OwnIndex(st, chunk, p) ==
    chunk.tag = "Index" => (p[4] = st.previous_pixel[4] /\ chunk.index = qoi_hash(p))

\* some one-byte chunk reconstructs p (own: not counting the Index chunks
\* the encoder never tries)
OneByte(st, p, own) ==
    \E c \in OneByteChunks :
        Reconstructs(st, c, p) /\ (own => OwnIndex(st, c, p))

\* some two-byte chunk reconstructs p; the green channel of a Luma chunk is
\* decided by its first byte, so only the first bytes that give the green of
\* p are paired with every second byte
TwoBytes(st, p) ==
    \E b0 \in LumaFirstBytes :
        /\ current_pixel(st, OfFirstByte[b0])[2] = p[2]
        /\ \E c \in TwoByteChunks[b0] : Reconstructs(st, c, p)

\* some four-byte chunk reconstructs p: an RGB chunk carries r, g, b as they
\* are, so it is the one with the r, g, b of p or none
FourBytes(st, p) ==
    LET rd == read_chunk(<<254, p[1], p[2], p[3]>>, 0)
    IN  rd.pos = 4 /\ Reconstructs(st, rd.chunk, p)

\* some chunk of n bytes reconstructs p in state st
CanWith(n, st, p, own) ==
    IF n = 1 THEN OneByte(st, p, own)
    ELSE IF n = 2 THEN TwoBytes(st, p)
    ELSE FourBytes(st, p)

\* no chunk shorter than the k-th chunk of the log reconstructs its pixel in
\* the state the encoder (and a decoder in lockstep) was in before it
NoShorterChunk(k, own) ==
    \A n \in {1, 2, 4} :
        n < Len(chunk_log[k].bytes)
        => ~CanWith(n, BeforeChunk(k), chunk_log[k].pixel, own)

\* C10: shortest chunk: the chunk the encoder emits for a pixel is of minimum
\* byte length among all chunks of the grammar that make a decoder in the
\* same state reconstruct that pixel.
ShortestChunk ==
    (enc_pc = "encode_chunk" /\ chunk_log # <<>>)
    => NoShorterChunk(Len(chunk_log), FALSE)

\* C10, amended: the chunk the encoder emits is of minimum byte length among
\* the chunks that reconstruct the pixel, not counting the Index chunk of any
\* slot other than hash(pixel), and no Index chunk at all when the alpha of
\* the pixel differs from the alpha of previous_pixel.
ShortestChunkButIndex ==
    (enc_pc = "encode_chunk" /\ chunk_log # <<>>)
    => NoShorterChunk(Len(chunk_log), TRUE)

ShortestChunkWitness ==
    /\ enc_pc = "encode_chunk"
    /\ Len(chunk_log) = 3
    /\ chunk_log[1].op = "Luma"
    /\ chunk_log[2].op = "Rgb"
    /\ chunk_log[3].op = "Index"

\* C11: encoding cannot panic: encode never ends in a panic, and wherever
\* encode_chunk is about to run the source is not empty, the three assert! of
\* try_encode_with_op_luma hold and none of run_count - 1, d + 2, drdg + 8,
\* dbdg + 8, dg + 32 leaves its 8-bit type.
EncodeNeverPanics ==
    /\ enc_pc # "panic"
    /\ enc_pc = "encode_chunk" =>
         \/ pixels = <<>>
         \/ LET branch == encode_chunk_branch(encoder, Head(pixels), Tail(pixels))
                run    == try_run(encoder, Head(pixels), Tail(pixels))
                diff   == try_encode_with_op_diff(encoder, Head(pixels))
                luma   == try_encode_with_op_luma(encoder, Head(pixels))
            IN  /\ branch.op # "panic"
                /\ ~branch.overflow
                /\ run.some => ~run.val.overflow
                /\ ~diff.overflow
                /\ ~luma.panic /\ ~luma.overflow

\* encode has finished a source whose second chunk is the Luma chunk with
\* dg = 31, dr - dg = 7, db - dg = 7 and whose third is an Index chunk
EncodeNeverPanicsWitness ==
    /\ enc_pc = "done"
    /\ Len(chunk_log) = 3
    /\ chunk_log[2].op = "Luma"
    /\ chunk_log[2].bytes = <<191, 255>>
    /\ chunk_log[3].op = "Index"

\* the branch encode_chunk is about to take for the next pixel of the source
NextBranch == encode_chunk_branch(encoder, Head(pixels), Tail(pixels))

\* encode_chunk is about to run on a source that is not exhausted
AtChunk == enc_pc = "encode_chunk" /\ pixels # <<>>

\* C12: Run has top priority: when the next pixel equals previous_pixel the
\* encoder emits one Run byte (top two bits 11, not 254 or 255) and no other
\* chunk, whether or not the cache slot of the pixel holds it; when the pixel
\* differs from previous_pixel the chunk emitted does not start with a Run byte.
RunPriority ==
    AtChunk =>
        IF Head(pixels) = encoder.previous_pixel
        THEN /\ NextBranch.op = "Run"
             /\ Len(NextBranch.bytes) = 1
             /\ NextBranch.bytes[1] \in 192..253
             /\ NextBranch.bytes[1] = 192 + NextBranch.consumed - 1
        ELSE /\ NextBranch.op # "Run"
             /\ NextBranch.bytes[1] \notin 192..253

\* a Luma chunk, then a Run chunk of 62 for the same pixel, which the cache
\* slot of the pixel holds, has been emitted
RunPriorityWitness ==
    /\ Len(chunk_log) >= 2
    /\ chunk_log[1].op = "Luma"
    /\ chunk_log[2].op = "Run"
    /\ chunk_log[2].bytes = <<253>>
    /\ chunk_log[2].consumed = 62
    /\ chunk_log[1].index_array[qoi_hash(chunk_log[2].pixel)] = chunk_log[2].pixel

\* the pixel of the k-th chunk was processed before that chunk and no other
\* pixel of its hash has been processed since
SeenAndKept(k) ==
    \E j \in 1..(k - 1) :
        /\ chunk_log[j].pixel = chunk_log[k].pixel
        /\ \A i \in (j + 1)..(k - 1) :
               qoi_hash(chunk_log[i].pixel) = qoi_hash(chunk_log[k].pixel)
               => chunk_log[i].pixel = chunk_log[k].pixel

\* C13: Index determinism: a pixel p that was processed earlier in the pass
\* (by any chunk, a Run included), with no other pixel of the same hash
\* processed since, that differs from previous_pixel and has its alpha, is
\* emitted as the one-byte Index chunk hash(p).
IndexDeterminism ==
    (enc_pc \in {"encode_chunk", "done"} /\ chunk_log # <<>>) =>
        LET k    == Len(chunk_log)
            p    == chunk_log[k].pixel
            prev == BeforeChunk(k).previous_pixel
        IN  (SeenAndKept(k) /\ p # prev /\ p[4] = prev[4])
            => /\ chunk_log[k].op = "Index"
               /\ chunk_log[k].bytes = <<(p[1] * 3 + p[2] * 5 + p[3] * 7 + p[4] * 11) % 64>>

\* (0,0,0,255) was emitted as a Run, a pixel of another hash followed, and
\* (0,0,0,255) came again and was emitted as Index 53
IndexDeterminismWitness ==
    /\ Len(chunk_log) = 3
    /\ chunk_log[1].op = "Run"
    /\ chunk_log[1].pixel = <<0, 0, 0, 255>>
    /\ chunk_log[2].op = "Luma"
    /\ chunk_log[3].pixel = <<0, 0, 0, 255>>
    /\ chunk_log[3].bytes = <<53>>

\* the difference x - y of two channel values by 8-bit wrapping subtraction,
\* read as a signed 8-bit number
SignedDelta(x, y) ==
    LET d == (x - y + 256) % 256
    IN  IF d >= 128 THEN d - 256 ELSE d

\* the Run, the alpha-changed and the Index-hit rule do not apply to the next
\* pixel of the source
PastIndex ==
    /\ AtChunk
    /\ Head(pixels) # encoder.previous_pixel
    /\ Head(pixels)[4] = encoder.previous_pixel[4]
    /\ encoder.index_array[qoi_hash(Head(pixels))] # Head(pixels)

\* the signed deltas of the next pixel from previous_pixel
Dr == SignedDelta(Head(pixels)[1], encoder.previous_pixel[1])
Dg == SignedDelta(Head(pixels)[2], encoder.previous_pixel[2])
Db == SignedDelta(Head(pixels)[3], encoder.previous_pixel[3])

\* C14: Diff boundary: when Run, alpha-changed and Index-hit do not apply,
\* the encoder emits a Diff chunk exactly when each of the signed wrapping
\* deltas of r, g, b lies in -2..1, and the chunk is the byte 01 rr gg bb
\* with each field = delta + 2.
DiffBoundary ==
    PastIndex =>
        /\ NextBranch.op = "Diff" <=> (Dr \in -2..1 /\ Dg \in -2..1 /\ Db \in -2..1)
        /\ NextBranch.op = "Diff"
             => NextBranch.bytes = <<64 + 16 * (Dr + 2) + 4 * (Dg + 2) + (Db + 2)>>

\* 0 -> 255 was emitted as the Diff of -1, -1, -1 and 255 -> 0 as the Diff of
\* +1, +1, +1
DiffBoundaryWitness ==
    /\ Len(chunk_log) >= 2
    /\ chunk_log[1].op = "Diff"
    /\ chunk_log[1].pixel = <<255, 255, 255, 255>>
    /\ chunk_log[1].bytes = <<85>>
    /\ chunk_log[2].op = "Diff"
    /\ chunk_log[2].pixel = <<0, 0, 0, 255>>
    /\ chunk_log[2].bytes = <<127>>

\* the Run, the alpha-changed, the Index-hit and the Diff rule do not apply
\* to the next pixel of the source
PastDiff == PastIndex /\ ~(Dr \in -2..1 /\ Dg \in -2..1 /\ Db \in -2..1)

\* C15: Luma boundary: when Run, alpha-changed, Index-hit and Diff do not
\* apply, the encoder emits the two-byte Luma chunk (10 and dg + 32, then
\* dr - dg + 8 and db - dg + 8 in the two nibbles) exactly when the signed
\* green delta dg lies in -32..31 and dr - dg and db - dg lie in -8..7;
\* otherwise it emits RGB.
LumaBoundary ==
    PastDiff =>
        /\ NextBranch.op = "Luma"
             <=> (Dg \in -32..31 /\ Dr - Dg \in -8..7 /\ Db - Dg \in -8..7)
        /\ NextBranch.op = "Luma"
             => NextBranch.bytes = <<128 + Dg + 32, 16 * (Dr - Dg + 8) + (Db - Dg + 8)>>
        /\ NextBranch.op # "Luma"
             => /\ NextBranch.op = "Rgb"
                /\ NextBranch.bytes = <<254, Head(pixels)[1], Head(pixels)[2], Head(pixels)[3]>>

\* the pixel dg = 31, dr - dg = 7, db - dg = 7 away from (10,10,10,255) was
\* emitted as the Luma chunk 191, 255
LumaBoundaryWitness ==
    /\ enc_pc = "encode_chunk"
    /\ Len(chunk_log) = 2
    /\ chunk_log[1].pixel = <<10, 10, 10, 255>>
    /\ chunk_log[2].pixel = <<48, 41, 48, 255>>
    /\ chunk_log[2].op = "Luma"
    /\ chunk_log[2].bytes = <<191, 255>>

\* C16: alpha change forces RGBA: when the alpha of the next pixel differs
\* from the alpha of previous_pixel the encoder emits the 5-byte chunk
\* 255, r, g, b, a, however small the deltas and whether or not the cache
\* holds the pixel; when the alpha is unchanged it never emits an RGBA chunk
\* (the final fallback branch is not taken).
AlphaForcesRgba ==
    AtChunk =>
        IF Head(pixels)[4] # encoder.previous_pixel[4]
        THEN /\ NextBranch.op = "Rgba"
             /\ NextBranch.bytes = <<255, Head(pixels)[1], Head(pixels)[2],
                                     Head(pixels)[3], Head(pixels)[4]>>
        ELSE /\ NextBranch.op \notin {"Rgba", "RgbaFallback"}
             /\ Len(NextBranch.bytes) < 5
             /\ NextBranch.bytes[1] # 255

\* (0,0,0,254) after (0,0,0,255) was emitted as RGBA, and so was (0,0,0,255)
\* after it although its cache slot held it
AlphaForcesRgbaWitness ==
    /\ Len(chunk_log) = 3
    /\ chunk_log[1].pixel = <<0, 0, 0, 255>>
    /\ chunk_log[2].pixel = <<0, 0, 0, 254>>
    /\ chunk_log[2].op = "Rgba"
    /\ chunk_log[3].pixel = <<0, 0, 0, 255>>
    /\ chunk_log[2].index_array[53] = <<0, 0, 0, 255>>
    /\ chunk_log[3].bytes = <<255, 0, 0, 0, 255>>

\* decode_chunk is about to read a chunk whose first byte is b
AtByte(b) ==
    /\ dec_pc = "decode_chunk"
    /\ decoder_state.n_pixels < n_pixels
    /\ pos < Len(input)
    /\ input[pos + 1] = b

\* the pixel p repeated n times
Repeated(p, n) == [i \in 1..n |-> p]

\* C17: decoder Run step: applying a Run chunk with 6-bit field x (0..61)
\* writes previous_pixel x + 1 times (3 or 4 bytes each by the header), adds
\* x + 1 to the pixel count and leaves previous_pixel unchanged.
DecoderRunStep ==
    [][ \A x \in 0..61 :
          AtByte(192 + x) =>
            /\ output' = output \o PixelBytes(dec_header.channels,
                                             Repeated(decoder_state.previous_pixel, x + 1))
            /\ decoder_state'.n_pixels = decoder_state.n_pixels + x + 1
            /\ decoder_state'.previous_pixel = decoder_state.previous_pixel
            /\ pos' = pos + 1
            /\ result' = result
      ]_vars

\* a Run chunk of 62 was applied after the RGBA chunk of (250,3,128,7) under
\* a 3-channel header
DecoderRunStepWitness ==
    /\ Len(dec_chunks) = 2
    /\ dec_chunks[2] = [tag |-> "Run", run |-> 62]
    /\ input[20] = 253
    /\ dec_header.channels = 3
    /\ decoder_state.previous_pixel = <<250, 3, 128, 7>>
    /\ decoder_state.n_pixels = 63
    /\ Len(output) = 3 * 63

\* the cache `after` holds the pixel prev in the slot of its hash and is the
\* cache `before` in every other slot
Refreshed(before, after, prev) ==
    /\ after[qoi_hash(prev)] = prev
    /\ \A i \in 0..63 : i # qoi_hash(prev) => after[i] = before[i]

\* C18: cache freshness: in the decoder and in the encoder, after any chunk
\* has been processed (a Run chunk included, also as the first chunk of the
\* stream) cache slot hash(previous_pixel) holds previous_pixel and every
\* other slot is as it was before the chunk.
CacheFreshness ==
    [][ /\ Len(chunk_log') = Len(chunk_log) + 1
           => Refreshed(encoder.index_array, encoder'.index_array,
                        encoder'.previous_pixel)
        /\ Len(dec_chunks') = Len(dec_chunks) + 1
           => Refreshed(decoder_state.index_array, decoder_state'.index_array,
                        decoder_state'.previous_pixel)
      ]_vars

\* the chunk c is the opcode that the first byte b selects, with its fields
\* in range
Dispatched(b, c) ==
    IF b = 254 THEN c.tag = "Rgb" /\ Len(c.rgb) = 3
    ELSE IF b = 255 THEN c.tag = "Rgba" /\ Len(c.rgba) = 4
    ELSE IF b \in 0..63 THEN c.tag = "Index" /\ c.index \in 0..63
    ELSE IF b \in 64..127
    THEN c.tag = "Diff" /\ c.dr \in -2..1 /\ c.dg \in -2..1 /\ c.db \in -2..1
    ELSE IF b \in 128..191
    THEN c.tag = "Luma" /\ c.dg \in -32..31 /\ c.dr_dg \in -8..7 /\ c.db_dg \in -8..7
    ELSE c.tag = "Run" /\ c.run \in 1..62

\* the number of bytes that follow the first byte b of a chunk
PayloadLength(b) ==
    IF b = 254 THEN 3 ELSE IF b = 255 THEN 4 ELSE IF b \in 128..191 THEN 1 ELSE 0

\* C19: opcode dispatch is total and unambiguous: each of the 256 first
\* bytes selects exactly one opcode (254 RGB with 3 payload bytes, 255 RGBA
\* with 4, 00xxxxxx Index, 01xxxxxx Diff, 10xxxxxx Luma with 1, every other
\* 11xxxxxx Run), the unreachable arm is never taken, no arithmetic
\* overflows, and the decoded fields are in range.
OpcodeDispatch ==
    [][ \A b \in Byte :
          (AtByte(b) /\ Len(input) >= pos + 1 + PayloadLength(b)) =>
            /\ result' = result
            /\ ~decode_chunk_overflows(decoder_state, input, pos)
            /\ read_chunk(input, pos).chunk.tag # "unreachable"
            /\ Len(dec_chunks') = Len(dec_chunks) + 1
            /\ Dispatched(b, dec_chunks'[Len(dec_chunks')])
            /\ pos' = pos + 1 + PayloadLength(b)
      ]_vars

\* the Luma chunk 191, 15 (dg = 31, dr - dg = -8, db - dg = 7) was read
\* after an RGBA chunk
OpcodeDispatchWitness ==
    /\ Len(dec_chunks) = 2
    /\ dec_chunks[1].tag = "Rgba"
    /\ input[20] = 191 /\ input[21] = 15
    /\ dec_chunks[2] = [tag |-> "Luma", dg |-> 31, dr_dg |-> -8, db_dg |-> 7]

\* the pixel that the chunk c stands for after the pixel prev, channel by
\* channel modulo 256
Reconstructed(prev, c) ==
    IF c.tag = "Rgb"
    THEN <<c.rgb[1], c.rgb[2], c.rgb[3], prev[4]>>
    ELSE IF c.tag = "Diff"
    THEN <<(prev[1] + c.dr + 256) % 256, (prev[2] + c.dg + 256) % 256,
           (prev[3] + c.db + 256) % 256, prev[4]>>
    ELSE <<(prev[1] + c.dr_dg + c.dg + 256) % 256, (prev[2] + c.dg + 256) % 256,
           (prev[3] + c.db_dg + c.dg + 256) % 256, prev[4]>>

\* C20: decoder pixel reconstruction: an RGB chunk yields (r, g, b, previous
\* alpha), a Diff chunk each channel plus its delta modulo 256, a Luma chunk
\* g + dg, r + (dr_dg + dg), b + (db_dg + dg) modulo 256, alpha unchanged and
\* the signed 8-bit sums never overflowing; the pixel becomes previous_pixel,
\* is written once and the pixel count grows by exactly 1.
PixelReconstruction ==
    [][ \A b \in (64..191) \cup {254} :
          (AtByte(b) /\ Len(input) >= pos + 1 + PayloadLength(b)) =>
            /\ result' = result
            /\ Len(dec_chunks') = Len(dec_chunks) + 1
            /\ LET c     == dec_chunks'[Len(dec_chunks')]
                   pixel == Reconstructed(decoder_state.previous_pixel, c)
               IN  /\ c.tag \in {"Rgb", "Diff", "Luma"}
                   /\ c.tag = "Luma" => /\ c.dr_dg + c.dg \in I8
                                        /\ c.db_dg + c.dg \in I8
                   /\ decoder_state'.previous_pixel = pixel
                   /\ decoder_state'.n_pixels = decoder_state.n_pixels + 1
                   /\ output' = output \o
                         (IF dec_header.channels = Rgb THEN SubSeq(pixel, 1, 3) ELSE pixel)
      ]_vars

\* the Luma chunk 191, 255 (dg = 31, dr - dg = 7, db - dg = 7) was applied to
\* the previous pixel (250, 3, 128, 7): red wraps to 32, alpha stays 7
PixelReconstructionWitness ==
    /\ Len(dec_chunks) = 2
    /\ dec_chunks[1] = [tag |-> "Rgba", rgba |-> <<250, 3, 128, 7>>]
    /\ dec_chunks[2] = [tag |-> "Luma", dg |-> 31, dr_dg |-> 7, db_dg |-> 7]
    /\ decoder_state.previous_pixel = <<32, 34, 166, 7>>
    /\ decoder_state.n_pixels = 2

\* the number of source pixels consumed by the first k chunks emitted
RECURSIVE ConsumedBy(_)
ConsumedBy(k) == IF k = 0 THEN 0 ELSE ConsumedBy(k - 1) + chunk_log[k].consumed

\* the number of consecutive pixels of the source, from position i on, that
\* equal p
RECURSIVE StretchFrom(_, _)
StretchFrom(i, p) ==
    IF i <= Len(source) /\ source[i] = p THEN 1 + StretchFrom(i + 1, p) ELSE 0

\* the pixel that was previous_pixel before the k-th chunk
PreviousBefore(k) == IF k = 1 THEN StartPixel ELSE chunk_log[k - 1].previous_pixel

\* the k-th chunk is a Run chunk
IsRun(k) == k \in 1..Len(chunk_log) /\ chunk_log[k].op = "Run"

\* the k-th chunk is one greedy Run: the current pixel and the equal pixels
\* that follow, 62 at most, in the byte 0xC0 | (length - 1)
GreedyRun(k) ==
    LET c       == chunk_log[k]
        first   == ConsumedBy(k - 1) + 1
        stretch == StretchFrom(first, PreviousBefore(k))
    IN  /\ c.pixel = PreviousBefore(k)
        /\ c.consumed = IF stretch < 62 THEN stretch ELSE 62
        /\ c.consumed \in 1..62
        /\ c.bytes = <<BitOr(192, c.consumed - 1)>>
        /\ c.bytes[1] \in 192..253

\* the stretch of n pixels equal to previous_pixel that begins at the k-th
\* chunk is ceil(n / 62) Run chunks, all but the last of length 62
StretchChunks(k) ==
    LET n    == StretchFrom(ConsumedBy(k - 1) + 1, PreviousBefore(k))
        runs == (n + 61) \div 62
    IN  /\ \A j \in k..(k + runs - 1) : IsRun(j)
        /\ \A j \in k..(k + runs - 2) : chunk_log[j].consumed = 62
        /\ ~IsRun(k + runs)
        /\ ConsumedBy(k + runs - 1) - ConsumedBy(k - 1) = n

\* C21: run length cap: a Run chunk consumes the current pixel and the equal
\* pixels that follow greedily, 62 at most; its byte is 0xC0 | (length - 1),
\* in 0xC0..0xFD, never 0xFE or 0xFF; a stretch of n consecutive pixels equal
\* to previous_pixel is emitted as exactly ceil(n / 62) Run chunks, all but
\* the last of length 62.
RunLengthCap ==
    /\ \A k \in 1..Len(chunk_log) : IsRun(k) => GreedyRun(k)
    /\ enc_pc = "done" =>
          \A k \in 1..Len(chunk_log) :
              (IsRun(k) /\ ~IsRun(k - 1)) => StretchChunks(k)

\* 63 pixels equal to the start pixel were encoded as a Run of 62 (0xFD) and
\* a Run of 1 (0xC0)
RunLengthCapWitness ==
    /\ enc_pc = "done"
    /\ Len(source) = 63
    /\ \A i \in 1..63 : source[i] = StartPixel
    /\ Len(chunk_log) = 2
    /\ chunk_log[1].bytes = <<253>> /\ chunk_log[1].consumed = 62
    /\ chunk_log[2].bytes = <<192>> /\ chunk_log[2].consumed = 1

\* the decoder, in the state the encoder was in before its k-th chunk (same
\* previous_pixel, same 64 cache slots), reads the bytes of that chunk as
\* exactly one chunk and reconstructs the pixel of the chunk
InvertsChunk(k) ==
    LET c  == chunk_log[k]
        st == BeforeChunk(k)
        d  == decode_chunk(st, c.bytes, 0)
    IN  /\ d.tag = "Ok"
        /\ ~decode_chunk_overflows(st, c.bytes, 0)
        /\ d.pos = Len(c.bytes)
        /\ d.chunk.tag # "Run"
        /\ d.written = c.pixel
        /\ d.state.previous_pixel = c.pixel
        /\ d.state.n_pixels = st.n_pixels + 1

\* C22: one-step inverse: for an encoder state and a decoder state that
\* agree on previous_pixel and on all 64 cache slots, and a next pixel that
\* differs from previous_pixel, the bytes encode_chunk emits are read by the
\* decoder as exactly one chunk, none left over, and reconstruct exactly
\* that pixel, alpha included.
OneStepInverse ==
    \A k \in 1..Len(chunk_log) :
        chunk_log[k].pixel # PreviousBefore(k) => InvertsChunk(k)

\* a Run chunk, an Rgba chunk for a pixel of another alpha and an Rgba chunk
\* back to the start pixel (which slot 53 holds) were emitted, and the two
\* Rgba chunks are inverted
OneStepInverseWitness ==
    /\ Len(chunk_log) = 3
    /\ chunk_log[1].op = "Run"
    /\ chunk_log[2].op = "Rgba"
    /\ chunk_log[2].pixel[4] # 255
    /\ chunk_log[3].op = "Rgba"
    /\ chunk_log[3].pixel = StartPixel
    /\ InvertsChunk(2)
    /\ InvertsChunk(3)

\* the number of pixels the chunks of a log stand for, read off their first
\* bytes: the run length of a Run byte (11xxxxxx below 254), one for any
\* other chunk
RECURSIVE Represented(_)
Represented(log) ==
    IF log = <<>> THEN 0
    ELSE LET byte0 == Head(log).bytes[1]
         IN  (IF byte0 \in 192..253 THEN (byte0 - 192) + 1 ELSE 1)
             + Represented(Tail(log))

\* C23: pixel conservation in the encoder: between chunks, the pixels the
\* emitted chunks stand for (the sum of the Run lengths plus one per other
\* chunk) are as many as the pixels consumed from the source, what is left
\* of the source is its unconsumed tail, the end marker is written exactly
\* when the source is exhausted, whatever width * height of the header is.
PixelConservation ==
    /\ enc_pc \in {"encode_chunk", "done"} =>
          LET taken == Len(source) - Len(pixels)
          IN  /\ Represented(chunk_log) = taken
              /\ pixels = SubSeq(source, taken + 1, Len(source))
    /\ enc_pc = "encode_chunk" =>
          encoder.output = encode_header(encoder) \o ChunkStream(chunk_log)
    /\ enc_pc = "done" =>
          /\ pixels = <<>>
          /\ Represented(chunk_log) = Len(source)
          /\ encoder.output =
                encode_header(encoder) \o ChunkStream(chunk_log) \o EofSequence

\* three pixels were encoded under a header of width 0 as a Run of 2 and a
\* Diff chunk, and the end marker was written
PixelConservationWitness ==
    /\ enc_pc = "done"
    /\ header.width = 0
    /\ Len(source) = 3
    /\ Len(chunk_log) = 2
    /\ chunk_log[1].bytes = <<193>>
    /\ chunk_log[2].op = "Diff"

\* C24: loop bound without overflow: for every header that decode_header
\* accepts, whatever u32 values its width and height are, decode goes on to
\* its loop (it does not abort) and the number of pixels the loop is to
\* produce is the product width * height as a number, not reduced modulo
\* 2^32.
LoopBound ==
    [][ (dec_pc = "decode_header" /\ decode_header(input, pos).tag = "Ok") =>
          /\ result' # "panic"
          /\ dec_pc' = "decode_chunk"
          /\ ProductIs(dec_header', n_pixels')
      ]_vars

====
